---- MODULE Spec2Model ----
(***************************************************************************)
(* Cart, pricing, order creation, order endpoints and language preference  *)
(* of the storefront backend                                               *)
(* (orders/views.py, orders/models.py, orders/serializers.py,              *)
(* api/views.py).                                                          *)
(*                                                                         *)
(* Money is counted in cents (DecimalField with decimal_places=2).         *)
(* Spec      : every request handler runs to completion, one at a time.    *)
(* SpecConc  : two workers serve requests; every ORM statement is its own  *)
(*             step (no transaction.atomic, no ATOMIC_REQUESTS), so the    *)
(*             statements of two requests interleave.                      *)
(* SpecOrders: the order endpoints (cancel, PATCH, DELETE) next to the     *)
(*             cart and catalog handlers, one request at a time, on        *)
(*             orders that overlapping requests have created.              *)
(* SpecRace  : four workers serve creations, add_item and clear on one     *)
(*             cart, statement by statement.                               *)
(* SpecLang  : set-language requests and the users' profiles.              *)
(***************************************************************************)
EXTENDS Integers, FiniteSets, Sequences, TLC

\* ---------------------------------------------------------------- bounds
MaxRequests == 2        \* requests served in one behaviour
MaxQty == 2             \* largest quantity a request asks for

\* ------------------------------------------------------- program constants
None == -1              \* Python None / SQL NULL of an optional id or price
DefaultQuantity == 1    \* validated_data.get('quantity', 1)
TaxRatePercent == 5     \* tax_rate = 0.05
ShippingPrice == 0      \* shipping_price = 0

\* ------------------------------------------------------------- the world
Users == {"u1", "u2"}
Addresses == {[id |-> 1, user |-> "u1"], [id |-> 2, user |-> "u2"], [id |-> 4, user |-> "u1"]}
AddressIds == {1, 2, 3}             \* 3 names no Address
ProductIds == {1, 2}
VariantIds == {1, 2}                \* variant 1 of product 1, variant 2 of product 2
Prices == {99900, 109900}
SalePrices == {None, 0, 89900}
Adjustments == {-100000, 0, 10000}     \* price_adjustment has no lower limit
Names == {"Phone X", "Phone Y"}

VARIABLES
    products,       \* Product rows: id -> record, or Deleted
    variants,       \* ProductVariant rows: id -> record, or Deleted
    carts,          \* users that have a Cart row
    cartItems,      \* CartItem rows
    nextItemId,     \* the CartItem id sequence
    orders,         \* Order rows
    orderItems,     \* OrderItem rows
    nextOrderId,    \* the Order id sequence
    profiles,       \* Profile rows: user -> record, or Deleted
    resp,           \* the request served last and its response
    nreq,           \* requests served so far
    req             \* SpecConc: the request each worker is serving

db == <<products, variants, carts, cartItems, nextItemId, orders, orderItems, nextOrderId,
        profiles>>
vars == <<products, variants, carts, cartItems, nextItemId, orders, orderItems, nextOrderId,
          profiles, resp, nreq, req>>

\* ------------------------------------------------------------ the catalog
\* products/models.py Product: the fields the cart and the order read.
Product(name, sku, price, sale_price) ==
    [exists |-> TRUE, name |-> name, sku |-> sku, price |-> price, sale_price |-> sale_price]

\* A row that was deleted (Product.DoesNotExist on lookup).
DeletedProduct ==
    [exists |-> FALSE, name |-> "", sku |-> "", price |-> 0, sale_price |-> None]

\* products/models.py ProductVariant.
Variant(product, name, price_adjustment) ==
    [exists |-> TRUE, product |-> product, name |-> name, price_adjustment |-> price_adjustment]

DeletedVariant ==
    [exists |-> FALSE, product |-> None, name |-> "", price_adjustment |-> 0]

\* cart_item.variant when the foreign key is NULL.
NoVariant == DeletedVariant

Sku(p) == IF p = 1 THEN "SKU-1" ELSE "SKU-2"

InitProducts == [p \in ProductIds |-> Product("Phone X", Sku(p), 99900, None)]
InitVariants == [v \in VariantIds |-> Variant(v, "256GB", 10000)]

\* ------------------------------------------------------------- pricing
\* CartItem.unit_price: `sale_price if sale_price else price` is a truthiness
\* test, so None and Decimal('0.00') both fall back to price; `if self.variant`
\* adds the adjustment when the foreign key is set.
unit_price(product, variant) ==
    LET base_price == IF product.sale_price \notin {None, 0}
                      THEN product.sale_price ELSE product.price
    IN  IF variant.exists THEN base_price + variant.price_adjustment ELSE base_price

\* CartItem.subtotal
subtotal(product, variant, quantity) == unit_price(product, variant) * quantity

\* get_object_or_404(Product, id=product_id)
ProductExists(product_id) == product_id \in ProductIds /\ products[product_id].exists

\* `if variant_id:` -- None and 0 both mean "no variant"
VariantGiven(variant_id) == variant_id \notin {None, 0}

\* get_object_or_404(ProductVariant, id=variant_id, product=product)
VariantExists(variant_id, product_id) ==
    /\ variant_id \in VariantIds
    /\ variants[variant_id].exists
    /\ variants[variant_id].product = product_id

\* cart_item.variant: the related row, or None when the key is NULL
VariantOf(item) == IF item.variant = None THEN NoVariant ELSE variants[item.variant]

\* cart_item.unit_price / cart_item.subtotal on a stored row
ItemUnitPrice(item) == unit_price(products[item.product], VariantOf(item))
ItemSubtotal(item) == subtotal(products[item.product], VariantOf(item), item.quantity)

RECURSIVE SumSubtotals(_)
SumSubtotals(items) ==
    IF items = {} THEN 0
    ELSE LET i == CHOOSE x \in items : TRUE
         IN  ItemSubtotal(i) + SumSubtotals(items \ {i})

\* cart.items.all()
ItemsOf(u) == {i \in cartItems : i.cart = u}

\* Cart.total_price: sum(...) starts from the int 0, so the result is the int 0
\* for an empty cart and a Decimal otherwise.
total_price(items) ==
    [type |-> IF items = {} THEN "int" ELSE "Decimal", value |-> SumSubtotals(items)]

\* tax_amount = cart_total * tax_rate with tax_rate the float 0.05:
\* Decimal * float raises TypeError; int * float is a float.
tax_amount(cart_total) ==
    IF cart_total.type = "Decimal"
    THEN [type |-> "TypeError", value |-> 0]
    ELSE [type |-> "float", value |-> (cart_total.value * TaxRatePercent) \div 100]

\* order_total = cart_total + shipping_price + tax_amount
order_total(cart_total, tax) == cart_total.value + ShippingPrice + tax.value

\* ------------------------------------------------------------ responses
\* What a finished request leaves behind: its input and its response.
\* had: rows of the requested (product, variant) pair in the cart before an
\* add_item, or rows in the cart before a create or a clear; first: the quantity of the
\* add_item served just before, when that one created the row of the same
\* pair; total: the cart total before a create; snap: the cart's rows when
\* a create was invoked, each with the order line it stands for then.
NoResp ==
    [op |-> "none", user |-> "", status |-> 0, error |-> "",
     product |-> None, variant |-> None, quantity |-> None, item |-> None,
     shipping |-> None, billing |-> None, order |-> None,
     had |-> None, first |-> None, total |-> None, snap |-> {}, body |-> {},
     language |-> "", code |-> "", name |-> "", cookie |-> ""]

\* the HTTP status and error of a response
Answer(r, status, error) == [r EXCEPT !.status = status, !.error = error]

\* ------------------------------------------------------------ cart rows
\* CartViewSet.get_queryset: Cart.objects.get_or_create(user=request.user)
get_object(u) == carts \cup {u}

\* CartItemSerializer.is_valid on quantity: PositiveIntegerField maps to an
\* IntegerField with min_value 0, not required (the model default is 1).
QuantityValid(q) == q = None \/ q >= 0

\* a CartItem row
CartItem(id, u, product_id, variant, quantity) ==
    [id |-> id, cart |-> u, product |-> product_id, variant |-> variant, quantity |-> quantity]

\* CartItem.objects.create(cart, product, variant, quantity)
InsertCartItem(items, id, u, product_id, variant, quantity) ==
    items \cup {CartItem(id, u, product_id, variant, quantity)}

SaveQuantityOfAll(items, id, quantity) == {[i EXCEPT !.quantity = quantity] : i \in items}

\* cart_item.save(): UPDATE ... WHERE id = cart_item.id
SaveQuantity(items, id, quantity) ==
    {IF i.id = id THEN [i EXCEPT !.quantity = quantity] ELSE i : i \in items}

\* the rows get_or_create(cart, product, variant) looks up
Lookup(u, product_id, variant) ==
    {i \in cartItems : i.cart = u /\ i.product = product_id /\ i.variant = variant}

IncrementOverwrites(old, quantity) == quantity

\* cart_item.quantity += quantity
Increment(old, quantity) == old + quantity

\* the `first` a response of add_item records
FirstOf(u, product_id, variant) ==
    IF /\ resp.op = "add_item" /\ resp.status = 200 /\ resp.had = 0
       /\ resp.user = u /\ resp.product = product_id
       /\ (IF VariantGiven(resp.variant) THEN resp.variant ELSE None) = variant
    THEN resp.quantity ELSE None

\* --------------------------------------------- Spec: one request at a time
\* CartViewSet.add_item
add_item(u, product_id, variant_id, q) ==
    LET quantity == IF q = None THEN DefaultQuantity ELSE q
        variant == IF VariantGiven(variant_id) THEN variant_id ELSE None
        found == Lookup(u, product_id, variant)
        r == [NoResp EXCEPT !.op = "add_item", !.user = u, !.product = product_id,
                            !.variant = variant_id, !.quantity = quantity,
                            !.had = Cardinality(found),
                            !.first = FirstOf(u, product_id, variant)]
    IN  /\ nreq' = nreq + 1
        /\ carts' = get_object(u)
        /\ UNCHANGED <<profiles, products, variants, orders, orderItems, nextOrderId, req>>
        /\ IF ~QuantityValid(q)
           THEN /\ resp' = Answer(r, 400, "ValidationError")
                /\ UNCHANGED <<cartItems, nextItemId>>
           ELSE IF ~ProductExists(product_id)
           THEN /\ resp' = Answer(r, 404, "NotFound")
                /\ UNCHANGED <<cartItems, nextItemId>>
           ELSE IF VariantGiven(variant_id) /\ ~VariantExists(variant_id, product_id)
           THEN /\ resp' = Answer(r, 404, "NotFound")
                /\ UNCHANGED <<cartItems, nextItemId>>
           ELSE IF found = {}
           THEN /\ cartItems' = InsertCartItem(cartItems, nextItemId, u, product_id,
                                               variant, quantity)
                /\ nextItemId' = nextItemId + 1
                /\ resp' = Answer([r EXCEPT !.item = nextItemId], 200, "")
           ELSE IF Cardinality(found) = 1
           THEN LET cart_item == CHOOSE i \in found : TRUE
                IN  /\ cartItems' = SaveQuantity(cartItems, cart_item.id,
                                                 Increment(cart_item.quantity, quantity))
                    /\ nextItemId' = nextItemId
                    /\ resp' = Answer([r EXCEPT !.item = cart_item.id], 200, "")
           ELSE /\ resp' = Answer(r, 500, "MultipleObjectsReturned")
                /\ UNCHANGED <<cartItems, nextItemId>>

\* CartViewSet.update_item
update_item(u, item_id, q) ==
    LET quantity == IF q = None THEN DefaultQuantity ELSE q
        found == {i \in cartItems : i.cart = u /\ i.id = item_id}
        r == [NoResp EXCEPT !.op = "update_item", !.user = u, !.item = item_id,
                            !.quantity = quantity]
    IN  /\ nreq' = nreq + 1
        /\ carts' = get_object(u)
        /\ UNCHANGED <<profiles, products, variants, nextItemId, orders, orderItems, nextOrderId, req>>
        /\ IF item_id \in {None, 0}
           THEN /\ resp' = Answer(r, 400, "ItemIdRequired")
                /\ UNCHANGED cartItems
           ELSE IF found = {}
           THEN /\ resp' = Answer(r, 404, "NotFound")
                /\ UNCHANGED cartItems
           ELSE /\ cartItems' = IF quantity <= 0 THEN cartItems \ found
                                ELSE SaveQuantity(cartItems, item_id, quantity)
                /\ resp' = Answer(r, 200, "")

remove_item_of_any_cart(u, item_id) ==
    LET found == {i \in cartItems : i.id = item_id}
        r == [NoResp EXCEPT !.op = "remove_item", !.user = u, !.item = item_id]
    IN  /\ nreq' = nreq + 1
        /\ carts' = get_object(u)
        /\ UNCHANGED <<profiles, products, variants, nextItemId, orders, orderItems, nextOrderId, req>>
        /\ IF item_id \in {None, 0}
           THEN /\ resp' = Answer(r, 400, "ItemIdRequired")
                /\ UNCHANGED cartItems
           ELSE IF found = {}
           THEN /\ resp' = Answer(r, 404, "NotFound")
                /\ UNCHANGED cartItems
           ELSE /\ cartItems' = cartItems \ found
                /\ resp' = Answer(r, 200, "")

\* CartViewSet.remove_item
remove_item(u, item_id) ==
    LET found == {i \in cartItems : i.cart = u /\ i.id = item_id}
        r == [NoResp EXCEPT !.op = "remove_item", !.user = u, !.item = item_id]
    IN  /\ nreq' = nreq + 1
        /\ carts' = get_object(u)
        /\ UNCHANGED <<profiles, products, variants, nextItemId, orders, orderItems, nextOrderId, req>>
        /\ IF item_id \in {None, 0}
           THEN /\ resp' = Answer(r, 400, "ItemIdRequired")
                /\ UNCHANGED cartItems
           ELSE IF found = {}
           THEN /\ resp' = Answer(r, 404, "NotFound")
                /\ UNCHANGED cartItems
           ELSE /\ cartItems' = cartItems \ found
                /\ resp' = Answer(r, 200, "")

clear_every_cart(u) ==
    /\ nreq' = nreq + 1
    /\ carts' = get_object(u)
    /\ cartItems' = {}
    /\ resp' = Answer([NoResp EXCEPT !.op = "clear", !.user = u,
                                     !.had = Cardinality(ItemsOf(u))], 200, "")
    /\ UNCHANGED <<profiles, products, variants, nextItemId, orders, orderItems, nextOrderId, req>>

\* CartViewSet.clear
clear(u) ==
    /\ nreq' = nreq + 1
    /\ carts' = get_object(u)
    /\ cartItems' = cartItems \ ItemsOf(u)
    /\ resp' = Answer([NoResp EXCEPT !.op = "clear", !.user = u,
                                     !.had = Cardinality(ItemsOf(u))], 200, "")
    /\ UNCHANGED <<profiles, products, variants, nextItemId, orders, orderItems, nextOrderId, req>>

\* ----------------------------------------------------------- order rows
AddressOfAnyUser(address_id, u) == \E a \in Addresses : a.id = address_id

\* get_object_or_404(Address, id=..., user=request.user)
AddressOwned(address_id, u) == \E a \in Addresses : a.id = address_id /\ a.user = u

\* Order.STATUS_CHOICES
Statuses == {"pending", "processing", "shipped", "delivered", "cancelled", "refunded"}

\* uuid.uuid4().hex[:12]: twelve lowercase hex digits, drawn at random
HexDigits == {"0", "1", "2", "3", "4", "5", "6", "7", "8", "9", "a", "b", "c", "d", "e", "f"}
UuidHex12 ==
    { <<"3", "f", "a", "0", "1", "b", "9", "c", "7", "e", "2", "d">>,
      <<"0", "0", "4", "4", "8", "8", "5", "5", "1", "1", "9", "9">> }

\* str.upper on one character and on a string
UpperChar(c) ==
    CASE c = "a" -> "A" [] c = "b" -> "B" [] c = "c" -> "C"
      [] c = "d" -> "D" [] c = "e" -> "E" [] c = "f" -> "F" [] OTHER -> c
upper(s) == [k \in 1..Len(s) |-> UpperChar(s[k])]

\* f"ORD-{...}"
OrderNumber(hex) == <<"O", "R", "D", "-">> \o upper(hex)

OrderSaveRenumbers(order, hex) == [order EXCEPT !.order_number = OrderNumber(hex)]

\* Order.save: an order without a number gets one; hex is what uuid4 draws
OrderSave(order, hex) ==
    IF order.order_number = <<>>
    THEN [order EXCEPT !.order_number = OrderNumber(hex)]
    ELSE order

\* order_number is unique=True: the number of another row
NumberTaken(rows, order) ==
    \E o \in rows : o.id # order.id /\ o.order_number = order.order_number

NewOrderToBilling(id, u, shipping, billing, total, tax) ==
    [id |-> id, user |-> u, shipping_address |-> billing, billing_address |-> billing,
     total_price |-> total, shipping_price |-> ShippingPrice, tax_amount |-> tax,
     status |-> "pending", is_paid |-> FALSE, order_number |-> <<>>,
     payment_method |-> None, payment_id |-> None, paid_at |-> None,
     tracking_number |-> None]

\* Order(...) as Order.objects.create builds it: status, is_paid and the
\* payment and tracking fields take the field defaults, order_number is blank
NewOrder(id, u, shipping, billing, total, tax) ==
    [id |-> id, user |-> u, shipping_address |-> shipping, billing_address |-> billing,
     total_price |-> total, shipping_price |-> ShippingPrice, tax_amount |-> tax,
     status |-> "pending", is_paid |-> FALSE, order_number |-> <<>>,
     payment_method |-> None, payment_id |-> None, paid_at |-> None,
     tracking_number |-> None]

OrderItemSaveOfOne(row) == [row EXCEPT !.subtotal = row.unit_price]

\* OrderItem.save: subtotal = unit_price * quantity, whatever was passed
OrderItemSave(row) == [row EXCEPT !.subtotal = row.unit_price * row.quantity]

\* OrderItem.objects.create(...) for one cart item; product and variant are the
\* rows cart_item.product and cart_item.variant load. cart_item is no column:
\* it keeps the id of the CartItem the row was made of.
NewOrderItem(id, order_id, cart_item, product, variant) ==
    OrderItemSave(
        [id |-> id, order |-> order_id, product |-> cart_item.product,
         cart_item |-> cart_item.id,
         product_name |-> product.name,
         product_variant |-> IF variant.exists THEN variant.name ELSE "",
         product_sku |-> product.sku,
         quantity |-> cart_item.quantity,
         unit_price |-> unit_price(product, variant),
         subtotal |-> subtotal(product, variant, cart_item.quantity)])

\* the OrderItem ids in use
OrderItemIds == {oi.id : oi \in orderItems}

NextOrderItemId == IF orderItems = {} THEN 1
                   ELSE 1 + CHOOSE m \in OrderItemIds : \A n \in OrderItemIds : n <= m

\* `for cart_item in cart.items.all()`: one OrderItem per row, in id order
RECURSIVE SnapshotItems(_, _, _)
SnapshotItems(items, order_id, id) ==
    IF items = {} THEN {}
    ELSE LET i == CHOOSE x \in items : \A y \in items : x.id <= y.id
         IN  {NewOrderItem(id, order_id, i, products[i.product], VariantOf(i))}
             \cup SnapshotItems(items \ {i}, order_id, id + 1)

\* the order line a cart row stands for: what an OrderItem made of it now
\* would record
Line(i) ==
    [product_name |-> products[i.product].name,
     product_variant |-> IF i.variant = None THEN "" ELSE variants[i.variant].name,
     product_sku |-> products[i.product].sku,
     quantity |-> i.quantity,
     unit_price |-> ItemUnitPrice(i),
     subtotal |-> ItemUnitPrice(i) * i.quantity]

\* the cart as a create request finds it when it is invoked
CartSnapshot(u) == {[item |-> i, line |-> Line(i)] : i \in ItemsOf(u)}

CartRowMissing(u) == u \notin carts

\* Cart.objects.get(user=request.user) raises DoesNotExist, or
\* cart.items.count() == 0
CartEmpty(u) == u \notin carts \/ ItemsOf(u) = {}

\* OrderViewSet.create
create(u, shipping, billing) ==
    LET items == ItemsOf(u)
        cart_total == total_price(items)
        tax == tax_amount(cart_total)
        r == [NoResp EXCEPT !.op = "create", !.user = u, !.shipping = shipping,
                            !.billing = billing, !.had = Cardinality(items),
                            !.total = cart_total.value, !.snap = CartSnapshot(u)]
    IN  /\ nreq' = nreq + 1
        /\ UNCHANGED <<profiles, products, variants, carts, nextItemId, req>>
        /\ IF CartEmpty(u)
           THEN /\ resp' = Answer(r, 400, "EmptyCart")
                /\ UNCHANGED <<cartItems, orders, orderItems, nextOrderId>>
           ELSE IF ~AddressOwned(shipping, u) \/ ~AddressOwned(billing, u)
           THEN /\ resp' = Answer(r, 404, "NotFound")
                /\ UNCHANGED <<cartItems, orders, orderItems, nextOrderId>>
           ELSE IF tax.type = "TypeError"
           THEN /\ resp' = Answer(r, 500, "TypeError")
                /\ UNCHANGED <<cartItems, orders, orderItems, nextOrderId>>
           ELSE \E hex \in UuidHex12 :
                LET order == OrderSave(NewOrder(nextOrderId, u, shipping, billing,
                                                order_total(cart_total, tax), tax.value),
                                       hex)
                IN  IF NumberTaken(orders, order)
                    THEN /\ resp' = Answer(r, 500, "IntegrityError")
                         /\ UNCHANGED <<cartItems, orders, orderItems, nextOrderId>>
                    ELSE /\ orders' = orders \cup {order}
                         /\ nextOrderId' = nextOrderId + 1
                         /\ orderItems' = orderItems
                               \cup SnapshotItems(items, nextOrderId, NextOrderItemId)
                         /\ cartItems' = cartItems \ items
                         /\ resp' = Answer([r EXCEPT !.order = nextOrderId], 201, "")

\* ------------------------------------------------------ catalog changes
\* ProductViewSet.perform_update / ProductAdmin: a staff user edits a product
update_product(p, name, price, sale_price) ==
    /\ nreq' = nreq + 1
    /\ products[p].exists
    /\ products' = [products EXCEPT ![p] = Product(name, products[p].sku, price, sale_price)]
    /\ resp' = Answer([NoResp EXCEPT !.op = "update_product", !.product = p], 200, "")
    /\ UNCHANGED <<profiles, variants, carts, cartItems, nextItemId, orders, orderItems, nextOrderId, req>>

\* ProductVariantViewSet.perform_update / ProductVariantAdmin
update_variant(v, price_adjustment) ==
    /\ nreq' = nreq + 1
    /\ variants[v].exists
    /\ variants' = [variants EXCEPT ![v].price_adjustment = price_adjustment]
    /\ resp' = Answer([NoResp EXCEPT !.op = "update_variant", !.variant = v], 200, "")
    /\ UNCHANGED <<profiles, products, carts, cartItems, nextItemId, orders, orderItems, nextOrderId, req>>

Cascade(rows, p) == {oi \in rows : oi.product # p}

\* OrderItem.product is on_delete=SET_NULL: the rows keep everything else
SetNull(rows, p) == {IF oi.product = p THEN [oi EXCEPT !.product = None] ELSE oi : oi \in rows}

\* Deleting a Product: its variants and the CartItems of it go with it
\* (on_delete=CASCADE); OrderItem.product becomes NULL (on_delete=SET_NULL).
destroy_product(p) ==
    /\ nreq' = nreq + 1
    /\ products[p].exists
    /\ products' = [products EXCEPT ![p] = DeletedProduct]
    /\ variants' = [v \in VariantIds |->
                      IF variants[v].product = p THEN DeletedVariant ELSE variants[v]]
    /\ cartItems' = {i \in cartItems : i.product # p}
    /\ orderItems' = SetNull(orderItems, p)
    /\ resp' = Answer([NoResp EXCEPT !.op = "destroy_product", !.product = p], 204, "")
    /\ UNCHANGED <<profiles, carts, nextItemId, orders, nextOrderId, req>>

\* -------------------------------------------------- the order endpoints
\* OrderViewSet.get_queryset and get_object: the order pk of the requesting
\* user, or none (Http404)
OrdersOfAnyone(u, pk) == {o \in orders : o.id = pk}

OrdersOf(u, pk) == {o \in orders : o.user = u /\ o.id = pk}

SaveEveryRow(rows, order) == {order : o \in rows}

\* order.save(): UPDATE of every column WHERE id = order.id
SaveOrder(rows, order) == {IF o.id = order.id THEN order ELSE o : o \in rows}

CancellableAlways(status) == status # "cancelled"

\* `order.status not in ['pending', 'processing']` is the refusal
Cancellable(status) == status \in {"pending", "processing"}

\* OrderViewSet.cancel
cancel(u, pk) ==
    LET found == OrdersOf(u, pk)
        r == [NoResp EXCEPT !.op = "cancel", !.user = u, !.order = pk]
    IN  /\ nreq' = nreq + 1
        /\ UNCHANGED <<profiles, products, variants, carts, cartItems, nextItemId, orderItems,
                       nextOrderId, req>>
        /\ IF found = {}
           THEN /\ resp' = Answer(r, 404, "NotFound")
                /\ UNCHANGED orders
           ELSE LET order == CHOOSE o \in found : TRUE
                IN  IF ~Cancellable(order.status)
                    THEN /\ resp' = Answer(r, 400, "InvalidTransition")
                         /\ UNCHANGED orders
                    ELSE \E hex \in UuidHex12 :
                         /\ orders' = SaveOrder(orders,
                                         OrderSave([order EXCEPT !.status = "cancelled"], hex))
                         /\ resp' = Answer(r, 200, "")

\* OrderViewSet.get_queryset: Order.objects.filter(user=self.request.user)
get_queryset(u) == {o \in orders : o.user = u}

\* GET /orders/: the ids of the orders the response lists
list(u) ==
    /\ nreq' = nreq + 1
    /\ resp' = Answer([NoResp EXCEPT !.op = "list", !.user = u,
                                     !.body = {o.id : o \in get_queryset(u)}], 200, "")
    /\ UNCHANGED <<db, req>>

\* GET /orders/{pk}/: self.get_object() on the queryset
retrieve(u, pk) ==
    LET found == OrdersOf(u, pk)
        r == [NoResp EXCEPT !.op = "retrieve", !.user = u, !.order = pk]
    IN  /\ nreq' = nreq + 1
        /\ UNCHANGED <<db, req>>
        /\ IF found = {}
           THEN resp' = Answer(r, 404, "NotFound")
           ELSE resp' = Answer([r EXCEPT !.body = {o.id : o \in found}], 200, "")

\* OrderSerializer: the fields a PUT or PATCH body may set (order_number,
\* is_paid and paid_at are read_only_fields; id, items, the addresses and the
\* timestamps are read-only by their declaration)
WritableFields ==
    {"status", "total_price", "shipping_price", "tax_amount", "payment_method",
     "tracking_number"}

\* OrderSerializer.is_valid on one field of a body: status is a ChoiceField
FieldValid(field, value) == field = "status" => value \in Statuses

\* serializer.save() on a body with one field: a read-only field is dropped
Apply(order, field, value) ==
    IF field \in WritableFields THEN [order EXCEPT ![field] = value] ELSE order

\* ModelViewSet.partial_update through OrderSerializer (PATCH /orders/{pk}/)
partial_update(u, pk, field, value) ==
    LET found == OrdersOf(u, pk)
        r == [NoResp EXCEPT !.op = "partial_update", !.user = u, !.order = pk]
    IN  /\ nreq' = nreq + 1
        /\ UNCHANGED <<profiles, products, variants, carts, cartItems, nextItemId, orderItems,
                       nextOrderId, req>>
        /\ IF found = {}
           THEN /\ resp' = Answer(r, 404, "NotFound")
                /\ UNCHANGED orders
           ELSE IF ~FieldValid(field, value)
           THEN /\ resp' = Answer(r, 400, "ValidationError")
                /\ UNCHANGED orders
           ELSE \E hex \in UuidHex12 :
                LET order == CHOOSE o \in found : TRUE
                IN  /\ orders' = SaveOrder(orders, OrderSave(Apply(order, field, value), hex))
                    /\ resp' = Answer(r, 200, "")

\* ModelViewSet.destroy (DELETE /orders/{pk}/): the order's OrderItems go with
\* it (OrderItem.order is on_delete=CASCADE)
destroy(u, pk) ==
    LET found == OrdersOf(u, pk)
        r == [NoResp EXCEPT !.op = "destroy", !.user = u, !.order = pk]
    IN  /\ nreq' = nreq + 1
        /\ UNCHANGED <<profiles, products, variants, carts, cartItems, nextItemId, nextOrderId, req>>
        /\ IF found = {}
           THEN /\ resp' = Answer(r, 404, "NotFound")
                /\ UNCHANGED <<orders, orderItems>>
           ELSE /\ orders' = orders \ found
                /\ orderItems' = {oi \in orderItems : oi.order # pk}
                /\ resp' = Answer(r, 204, "")

\* ------------------------------------------------- the language preference
\* settings.LANGUAGES
LANGUAGES == {"en", "ru", "uz"}

\* dict(settings.LANGUAGES).get(lang_code, '')
LanguageName(code) ==
    IF code = "en" THEN "English"
    ELSE IF code = "ru" THEN "Russian"
    ELSE IF code = "uz" THEN "Uzbek"
    ELSE ""

\* settings.LANGUAGE_CODE
LANGUAGE_CODE == "uz"

\* request.data.get('language', None) of a body without a language
NoCode == "None"

\* a request without credentials (permission_classes = [AllowAny])
AnonymousUser == "anonymous"

\* request.user.profile: the user's Profile row, of which post reads and
\* writes the language
Profile(language) == [exists |-> TRUE, language |-> language]
DeletedProfile == [exists |-> FALSE, language |-> ""]

\* every user has a Profile; outside SpecLang its language is never written
InitProfiles == [u \in Users |-> Profile(LANGUAGE_CODE)]

\* `not lang_code or lang_code not in valid_languages`
InvalidCode(lang_code) == lang_code \in {NoCode, ""} \/ lang_code \notin LANGUAGES

\* request.user.is_authenticated
is_authenticated(u) == u # AnonymousUser

\* print(request.user.profile) stands before the try: the accessor raises
\* RelatedObjectDoesNotExist when the user has no Profile row
ProfileReadable(u) == profiles[u].exists

\* SetLanguageView.post; saved tells whether profile.save(update_fields=
\* ['language']) went through or raised inside the try
set_language(u, lang_code, saved) ==
    LET r == [NoResp EXCEPT !.op = "set_language", !.user = u, !.language = lang_code]
    IN  /\ nreq' = nreq + 1
        /\ UNCHANGED <<products, variants, carts, cartItems, nextItemId, orders, orderItems,
                       nextOrderId, req>>
        /\ IF InvalidCode(lang_code)
           THEN /\ resp' = Answer(r, 400, "Invalid language code")
                /\ UNCHANGED profiles
           ELSE IF is_authenticated(u) /\ ~ProfileReadable(u)
           THEN /\ resp' = Answer(r, 500, "RelatedObjectDoesNotExist")
                /\ UNCHANGED profiles
           ELSE /\ resp' = Answer([r EXCEPT !.code = lang_code,
                                            !.name = LanguageName(lang_code),
                                            !.cookie = lang_code], 200, "")
                /\ profiles' = IF is_authenticated(u) /\ saved
                               THEN [profiles EXCEPT ![u] = Profile(lang_code)]
                               ELSE profiles

\* ProfileAdmin: a staff user deletes a user's Profile
delete_profile(u) ==
    /\ nreq' = nreq + 1
    /\ profiles[u].exists
    /\ profiles' = [profiles EXCEPT ![u] = DeletedProfile]
    /\ resp' = Answer([NoResp EXCEPT !.op = "delete_profile", !.user = u], 200, "")
    /\ UNCHANGED <<products, variants, carts, cartItems, nextItemId, orders, orderItems,
                   nextOrderId, req>>

\* ---------------------------------------------------------- the workers
Workers == {1, 2}

\* a worker between requests
Idle ==
    [pc |-> "idle", op |-> "none", user |-> "", product |-> None, variant |-> None,
     quantity |-> None, shipping |-> None, billing |-> None,
     cart_item |-> CartItem(None, "", None, None, None), items |-> <<>>,
     order |-> None, had |-> None, total |-> None, tax |-> None, snap |-> {},
     loaded |-> NewOrder(None, "", None, None, None, None)]

\* The carts a behaviour starts from: no cart at all, or the carts after u1's
\* add_item(1, 1, 2) and u2's add_item(2, None, 1).
InitCarts ==
    { [carts |-> {}, items |-> {}, next |-> 1],
      [carts |-> {"u1", "u2"},
       items |-> {CartItem(1, "u1", 1, 1, 2), CartItem(2, "u2", 2, None, 1)}, next |-> 3] }

Init ==
    /\ products = InitProducts
    /\ variants = InitVariants
    /\ \E c \in InitCarts :
          /\ carts = c.carts
          /\ cartItems = c.items
          /\ nextItemId = c.next
    /\ orders = {}
    /\ orderItems = {}
    /\ nextOrderId = 1
    /\ profiles = InitProfiles
    /\ resp = NoResp
    /\ nreq = 0
    /\ req = [w \in Workers |-> Idle]

\* request bodies of add_item: every quantity for the pairs that exist, and a
\* valid and an invalid quantity for the pairs whose lookup fails
AddInputs ==
    ({<<1, None>>, <<1, 0>>, <<1, 1>>, <<2, None>>, <<2, 2>>} \X ({None, -2} \cup (0..MaxQty)))
    \cup ({<<9, None>>, <<9, 1>>, <<1, 2>>, <<1, 9>>} \X {1, -2})

\* a request is served while the behaviour's budget lasts
Budget == nreq < MaxRequests

AddItem == Budget /\ \E u \in Users, a \in AddInputs : add_item(u, a[1][1], a[1][2], a[2])
UpdateItem == Budget /\ \E u \in Users, i \in {None} \cup (0..nextItemId),
                           q \in {None, -2} \cup (0..MaxQty) : update_item(u, i, q)
RemoveItem == Budget /\ \E u \in Users, i \in {None} \cup (0..nextItemId) : remove_item(u, i)
Clear == Budget /\ \E u \in Users : clear(u)
Create == Budget /\ \E u \in Users, s \in AddressIds, b \in AddressIds : create(u, s, b)
UpdateProduct == Budget /\ \E p \in ProductIds, n \in Names, pr \in Prices, sp \in SalePrices :
                              update_product(p, n, pr, sp)
UpdateVariant == Budget /\ \E v \in VariantIds, a \in Adjustments : update_variant(v, a)
DestroyProduct == Budget /\ \E p \in ProductIds : destroy_product(p)

Next ==
    \/ AddItem
    \/ UpdateItem
    \/ RemoveItem
    \/ Clear
    \/ Create
    \/ UpdateProduct
    \/ UpdateVariant
    \/ DestroyProduct

Spec == Init /\ [][Next]_vars

\* ======================================================================
\* SpecConc: two workers, one ORM statement per step
\* ======================================================================
MaxConcRequests == 4    \* requests started in one behaviour of SpecConc

\* the worker takes a request
Begin(w, r) ==
    /\ req[w].pc = "idle"
    /\ nreq < MaxConcRequests
    /\ nreq' = nreq + 1
    /\ req' = [req EXCEPT ![w] = r]

\* the worker's request moves on
Goto(w, r) == req' = [req EXCEPT ![w] = r] /\ UNCHANGED <<resp, nreq>>

\* the worker answers and is free again
Finish(w, status, error) ==
    /\ resp' = Answer([NoResp EXCEPT !.op = req[w].op, !.user = req[w].user,
                                     !.product = req[w].product,
                                     !.variant = req[w].variant,
                                     !.quantity = req[w].quantity,
                                     !.shipping = req[w].shipping,
                                     !.billing = req[w].billing,
                                     !.order = req[w].order, !.had = req[w].had,
                                     !.total = req[w].total, !.snap = req[w].snap],
                      status, error)
    /\ req' = [req EXCEPT ![w] = Idle]
    /\ UNCHANGED nreq

\* the foreign keys of a CartItem row name existing rows
ForeignKeysExist(product_id, variant) ==
    /\ products[product_id].exists
    /\ variant = None \/ variants[variant].exists

\* unique_together = ('cart', 'product', 'variant'): SQL compares NULL as
\* distinct, so rows without a variant never conflict
UniqueConflict(u, product_id, variant) ==
    variant # None /\ Lookup(u, product_id, variant) # {}

\* add_item up to the lookups: get_object, is_valid, get_object_or_404 twice
add_item_begin(w, u, product_id, variant_id, q) ==
    LET quantity == IF q = None THEN DefaultQuantity ELSE q
        variant == IF VariantGiven(variant_id) THEN variant_id ELSE None
        r == [Idle EXCEPT !.op = "add_item", !.user = u, !.product = product_id,
                          !.variant = variant, !.quantity = quantity]
    IN  /\ QuantityValid(q)
        /\ ProductExists(product_id)
        /\ VariantGiven(variant_id) => VariantExists(variant_id, product_id)
        /\ Begin(w, [r EXCEPT !.pc = "get"])
        /\ carts' = get_object(u)
        /\ UNCHANGED <<profiles, products, variants, cartItems, nextItemId, orders, orderItems,
                       nextOrderId, resp>>

\* get_or_create: self.get(cart, product, variant)
add_item_get(w) ==
    LET r == req[w]
        found == Lookup(r.user, r.product, r.variant)
    IN  /\ r.op = "add_item" /\ r.pc = "get"
        /\ UNCHANGED db
        /\ IF found = {}
           THEN Goto(w, [r EXCEPT !.pc = "insert", !.had = 0])
           ELSE IF Cardinality(found) = 1
           THEN Goto(w, [r EXCEPT !.pc = "save", !.had = 1,
                                  !.cart_item = CHOOSE i \in found : TRUE])
           ELSE Finish(w, 500, "MultipleObjectsReturned")

\* get_or_create: self.create(...); an IntegrityError sends it back to get
add_item_insert(w) ==
    LET r == req[w]
    IN  /\ r.op = "add_item" /\ r.pc = "insert"
        /\ UNCHANGED <<profiles, products, variants, carts, orders, orderItems, nextOrderId>>
        /\ IF ForeignKeysExist(r.product, r.variant)
              /\ ~UniqueConflict(r.user, r.product, r.variant)
           THEN /\ cartItems' = InsertCartItem(cartItems, nextItemId, r.user, r.product,
                                               r.variant, r.quantity)
                /\ nextItemId' = nextItemId + 1
                /\ Finish(w, 200, "")
           ELSE /\ UNCHANGED <<cartItems, nextItemId>>
                /\ Goto(w, [r EXCEPT !.pc = "reget"])

\* get_or_create after the IntegrityError: self.get again, else re-raise
add_item_reget(w) ==
    LET r == req[w]
        found == Lookup(r.user, r.product, r.variant)
    IN  /\ r.op = "add_item" /\ r.pc = "reget"
        /\ UNCHANGED db
        /\ IF Cardinality(found) = 1
           THEN Goto(w, [r EXCEPT !.pc = "save", !.had = 1,
                                  !.cart_item = CHOOSE i \in found : TRUE])
           ELSE Finish(w, 500, "IntegrityError")

add_item_save_in_place(w) ==
    LET r == req[w]
        rows == {i \in cartItems : i.id = r.cart_item.id}
    IN  /\ r.op = "add_item" /\ r.pc = "save"
        /\ UNCHANGED <<profiles, products, variants, carts, nextItemId, orders, orderItems,
                       nextOrderId>>
        /\ cartItems' = {IF i \in rows THEN [i EXCEPT !.quantity = i.quantity + r.quantity]
                         ELSE i : i \in cartItems}
        /\ Finish(w, 200, "")

\* cart_item.quantity += quantity; cart_item.save(): UPDATE by id, and an
\* INSERT of the row when the UPDATE matches none
add_item_save(w) ==
    LET r == req[w]
        quantity == Increment(r.cart_item.quantity, r.quantity)
        stored == \E i \in cartItems : i.id = r.cart_item.id
    IN  /\ r.op = "add_item" /\ r.pc = "save"
        /\ UNCHANGED <<profiles, products, variants, carts, nextItemId, orders, orderItems,
                       nextOrderId>>
        /\ IF stored
           THEN /\ cartItems' = SaveQuantity(cartItems, r.cart_item.id, quantity)
                /\ Finish(w, 200, "")
           ELSE IF ForeignKeysExist(r.product, r.variant)
                   /\ ~UniqueConflict(r.user, r.product, r.variant)
           THEN /\ cartItems' = InsertCartItem(cartItems, r.cart_item.id, r.user,
                                               r.product, r.variant, quantity)
                /\ Finish(w, 200, "")
           ELSE /\ UNCHANGED cartItems
                /\ Finish(w, 500, "IntegrityError")

\* clear: get_object
clear_begin(w, u) ==
    /\ Begin(w, [Idle EXCEPT !.op = "clear", !.user = u, !.pc = "delete"])
    /\ carts' = get_object(u)
    /\ UNCHANGED <<profiles, products, variants, cartItems, nextItemId, orders, orderItems,
                   nextOrderId, resp>>

\* clear: cart.items.all().delete()
clear_delete(w) ==
    /\ req[w].op = "clear" /\ req[w].pc = "delete"
    /\ cartItems' = cartItems \ ItemsOf(req[w].user)
    /\ Finish(w, 200, "")
    /\ UNCHANGED <<profiles, products, variants, carts, nextItemId, orders, orderItems, nextOrderId>>

\* create up to the address lookups: Cart.objects.get, cart.items.count(),
\* get_object_or_404 twice
create_begin(w, u, shipping, billing) ==
    LET r == [Idle EXCEPT !.op = "create", !.user = u, !.shipping = shipping,
                          !.billing = billing, !.had = Cardinality(ItemsOf(u)),
                          !.total = total_price(ItemsOf(u)).value,
                          !.snap = CartSnapshot(u)]
    IN  /\ Begin(w, [r EXCEPT !.pc = IF CartEmpty(u) THEN "empty"
                                     ELSE IF ~AddressOwned(shipping, u)
                                             \/ ~AddressOwned(billing, u)
                                     THEN "not_found" ELSE "total"])
        /\ UNCHANGED <<db, resp>>

\* create: the early returns
create_reject(w) ==
    /\ req[w].op = "create" /\ req[w].pc \in {"empty", "not_found"}
    /\ IF req[w].pc = "empty" THEN Finish(w, 400, "EmptyCart")
       ELSE Finish(w, 404, "NotFound")
    /\ UNCHANGED db

\* create: cart_total = cart.total_price and the tax on it
create_total(w) ==
    LET r == req[w]
        cart_total == total_price(ItemsOf(r.user))
        tax == tax_amount(cart_total)
    IN  /\ r.op = "create" /\ r.pc = "total"
        /\ UNCHANGED db
        /\ IF tax.type = "TypeError"
           THEN Finish(w, 500, "TypeError")
           ELSE Goto(w, [r EXCEPT !.pc = "order", !.total = order_total(cart_total, tax),
                                  !.tax = tax.value])

\* create: Order.objects.create(...); the INSERT fails when the number drawn
\* is the number of another order
create_order(w) ==
    LET r == req[w]
    IN  /\ r.op = "create" /\ r.pc = "order"
        /\ UNCHANGED <<profiles, products, variants, carts, cartItems, nextItemId, orderItems>>
        /\ \E hex \in UuidHex12 :
              LET order == OrderSave(NewOrder(nextOrderId, r.user, r.shipping, r.billing,
                                              r.total, r.tax), hex)
              IN  IF NumberTaken(orders, order)
                  THEN /\ UNCHANGED <<orders, nextOrderId>>
                       /\ Finish(w, 500, "IntegrityError")
                  ELSE /\ orders' = orders \cup {order}
                       /\ nextOrderId' = nextOrderId + 1
                       /\ Goto(w, [r EXCEPT !.pc = "fetch", !.order = nextOrderId])

\* the rows of a queryset in id order
RECURSIVE InIdOrder(_)
InIdOrder(items) ==
    IF items = {} THEN <<>>
    ELSE LET i == CHOOSE x \in items : \A y \in items : x.id <= y.id
         IN  <<i>> \o InIdOrder(items \ {i})

\* create: `for cart_item in cart.items.all()` runs its query
create_fetch(w) ==
    LET r == req[w]
    IN  /\ r.op = "create" /\ r.pc = "fetch"
        /\ Goto(w, [r EXCEPT !.pc = "items", !.items = InIdOrder(ItemsOf(r.user))])
        /\ UNCHANGED db

\* create: one turn of the loop: cart_item.product and cart_item.variant are
\* loaded (DoesNotExist when the row is gone) and the OrderItem is inserted
create_item(w) ==
    LET r == req[w]
        cart_item == Head(r.items)
    IN  /\ r.op = "create" /\ r.pc = "items" /\ r.items # <<>>
        /\ UNCHANGED <<profiles, products, variants, carts, cartItems, nextItemId, orders, nextOrderId>>
        /\ IF ForeignKeysExist(cart_item.product, cart_item.variant)
           THEN /\ orderItems' = orderItems
                      \cup {NewOrderItem(NextOrderItemId, r.order, cart_item,
                                         products[cart_item.product], VariantOf(cart_item))}
                /\ Goto(w, [r EXCEPT !.items = Tail(r.items)])
           ELSE /\ UNCHANGED orderItems
                /\ Finish(w, 500, "DoesNotExist")

create_answer_only(w) ==
    /\ req[w].op = "create" /\ req[w].pc = "items" /\ req[w].items = <<>>
    /\ Finish(w, 201, "")
    /\ UNCHANGED db

\* create: cart.items.all().delete() and the 201 response
create_clear(w) ==
    LET r == req[w]
    IN  /\ r.op = "create" /\ r.pc = "items" /\ r.items = <<>>
        /\ cartItems' = cartItems \ ItemsOf(r.user)
        /\ Finish(w, 201, "")
        /\ UNCHANGED <<profiles, products, variants, carts, nextItemId, orders, orderItems, nextOrderId>>

\* cancel: self.get_object() loads the order, and the status is looked at
cancel_begin(w, u, pk) ==
    LET found == OrdersOf(u, pk)
        r == [Idle EXCEPT !.op = "cancel", !.user = u, !.order = pk]
    IN  /\ UNCHANGED <<db, resp>>
        /\ IF found = {}
           THEN Begin(w, [r EXCEPT !.pc = "not_found"])
           ELSE LET order == CHOOSE o \in found : TRUE
                IN  Begin(w, [r EXCEPT !.loaded = order,
                                       !.pc = IF Cancellable(order.status)
                                              THEN "save" ELSE "refused"])

\* cancel: the early returns
cancel_reject(w) ==
    /\ req[w].op = "cancel" /\ req[w].pc \in {"not_found", "refused"}
    /\ IF req[w].pc = "refused" THEN Finish(w, 400, "InvalidTransition")
       ELSE Finish(w, 404, "NotFound")
    /\ UNCHANGED db

\* cancel: order.status = 'cancelled'; order.save() writes the loaded row back
cancel_save(w) ==
    LET r == req[w]
    IN  /\ r.op = "cancel" /\ r.pc = "save"
        /\ UNCHANGED <<profiles, products, variants, carts, cartItems, nextItemId, orderItems,
                       nextOrderId>>
        /\ \E hex \in UuidHex12 :
              LET order == OrderSave([r.loaded EXCEPT !.status = "cancelled"], hex)
              IN  orders' = IF \E o \in orders : o.id = order.id
                            THEN SaveOrder(orders, order)
                            ELSE orders \cup {order}
        /\ Finish(w, 200, "")

\* a staff request deletes a product while the workers are busy or idle
conc_destroy_product(p) ==
    /\ nreq < MaxConcRequests
    /\ destroy_product(p)

\* the requests SpecConc serves: u1 adds product 1 with or without its
\* variant, clears the cart and places orders
ConcUsers == {"u1"}
ConcAddInputs == {<<1, None>>, <<1, 1>>} \X (1..MaxQty)

AddItemBegin == \E w \in Workers, u \in ConcUsers, a \in ConcAddInputs :
                   add_item_begin(w, u, a[1][1], a[1][2], a[2])
AddItemGet == \E w \in Workers : add_item_get(w)
AddItemInsert == \E w \in Workers : add_item_insert(w)
AddItemReget == \E w \in Workers : add_item_reget(w)
AddItemSave == \E w \in Workers : add_item_save(w)
ClearBegin == \E w \in Workers, u \in ConcUsers : clear_begin(w, u)
ClearDelete == \E w \in Workers : clear_delete(w)
CreateBegin == \E w \in Workers, u \in ConcUsers : create_begin(w, u, 1, 4)
CreateReject == \E w \in Workers : create_reject(w)
CreateTotal == \E w \in Workers : create_total(w)
CreateOrder == \E w \in Workers : create_order(w)
CreateFetch == \E w \in Workers : create_fetch(w)
CreateItem == \E w \in Workers : create_item(w)
CreateClear == \E w \in Workers : create_clear(w)
ConcDestroyProduct == \E p \in {1} : conc_destroy_product(p)
CancelBegin == \E w \in Workers, u \in ConcUsers : cancel_begin(w, u, 1)
CancelReject == \E w \in Workers : cancel_reject(w)
CancelSave == \E w \in Workers : cancel_save(w)

NextConc ==
    \/ AddItemBegin
    \/ AddItemGet
    \/ AddItemInsert
    \/ AddItemReget
    \/ AddItemSave
    \/ ClearBegin
    \/ ClearDelete
    \/ CreateBegin
    \/ CreateReject
    \/ CreateTotal
    \/ CreateOrder
    \/ CreateFetch
    \/ CreateItem
    \/ CreateClear
    \/ ConcDestroyProduct
    \/ CancelBegin
    \/ CancelReject
    \/ CancelSave

SpecConc == Init /\ [][NextConc]_vars

\* ======================================================================
\* SpecRace: four workers on u1's cart of one item
\* ======================================================================
\* Four requests of u1 can be in flight at once: each worker serves a
\* creation, an add_item of the line the cart starts with, or a clear.
RaceWorkers == 1..4

InitRace ==
    /\ products = InitProducts
    /\ variants = InitVariants
    /\ carts = {"u1", "u2"}
    /\ cartItems = {CartItem(1, "u1", 1, 1, 2), CartItem(2, "u2", 2, None, 1)}
    /\ nextItemId = 3
    /\ orders = {}
    /\ orderItems = {}
    /\ nextOrderId = 1
    /\ profiles = InitProfiles
    /\ resp = NoResp
    /\ nreq = 0
    /\ req = [w \in RaceWorkers |-> Idle]

NextRace ==
    \/ \E w \in RaceWorkers, u \in ConcUsers : add_item_begin(w, u, 1, 1, 1)
    \/ \E w \in RaceWorkers : add_item_get(w)
    \/ \E w \in RaceWorkers : add_item_insert(w)
    \/ \E w \in RaceWorkers : add_item_reget(w)
    \/ \E w \in RaceWorkers : add_item_save(w)
    \/ \E w \in RaceWorkers, u \in ConcUsers : clear_begin(w, u)
    \/ \E w \in RaceWorkers : clear_delete(w)
    \/ \E w \in RaceWorkers, u \in ConcUsers : create_begin(w, u, 1, 4)
    \/ \E w \in RaceWorkers : create_reject(w)
    \/ \E w \in RaceWorkers : create_total(w)
    \/ \E w \in RaceWorkers : create_order(w)
    \/ \E w \in RaceWorkers : create_fetch(w)
    \/ \E w \in RaceWorkers : create_item(w)
    \/ \E w \in RaceWorkers : create_clear(w)

SpecRace == InitRace /\ [][NextRace]_vars

\* ======================================================================
\* SpecOrders: the order endpoints, one request at a time, on orders that exist
\* ======================================================================
MaxOrderRequests == 2   \* requests served in one behaviour of SpecOrders

\* Orders exist only through requests that overlap: a creation counts the
\* cart's rows, another request of the user clears the cart, the creation
\* reads the total of the empty cart (the int 0, so the tax is computed) and
\* inserts its Order. Order 1 is u1's, whose add_item(1, 1, 2) put row 3 in the
\* cart before the creation's loop read it; order 2 is u2's, made of a cart
\* that stayed empty. Both users added an item again afterwards.
SeedLine == NewOrderItem(1, 1, CartItem(3, "u1", 1, 1, 2), InitProducts[1], InitVariants[1])

SeedOrder(id, u, shipping, billing, hex) ==
    OrderSave(NewOrder(id, u, shipping, billing, 0, 0), hex)

SeedHex(id) == CHOOSE hex \in UuidHex12 : (id = 1) = (hex[1] = "3")

\* the status a PATCH has given order 1 since
InitOrders ==
    /\ products = InitProducts
    /\ variants = InitVariants
    /\ carts = {"u1", "u2"}
    /\ cartItems = {CartItem(4, "u2", 2, None, 1), CartItem(5, "u1", 1, None, 1)}
    /\ nextItemId = 6
    /\ \E st \in Statuses :
          orders = {[SeedOrder(1, "u1", 1, 4, SeedHex(1)) EXCEPT !.status = st],
                    SeedOrder(2, "u2", 2, 2, SeedHex(2))}
    /\ orderItems = {SeedLine}
    /\ nextOrderId = 3
    /\ profiles = InitProfiles
    /\ resp = NoResp
    /\ nreq = 0
    /\ req = [w \in Workers |-> Idle]

OrderBudget == nreq < MaxOrderRequests

\* request bodies of PATCH: a status, a total, a tracking number, a number
\* for the read-only order_number, and a status that is no choice
PatchInputs ==
    {<<"status", "shipped">>, <<"status", "processing">>, <<"status", "returned">>,
     <<"total_price", 100>>, <<"tracking_number", 4711>>,
     <<"order_number", OrderNumber(SeedHex(2))>>}

OrdList == OrderBudget /\ \E u \in Users : list(u)
OrdRetrieve == OrderBudget /\ \E u \in Users, pk \in {1, 2, 3} : retrieve(u, pk)
OrdCancel == OrderBudget /\ \E u \in Users, pk \in {1, 2} : cancel(u, pk)
OrdPartialUpdate == OrderBudget /\ \E u \in Users, pk \in {1}, d \in PatchInputs :
                                      partial_update(u, pk, d[1], d[2])
OrdDestroy == OrderBudget /\ \E u \in Users, pk \in {1} : destroy(u, pk)
OrdAddItem == OrderBudget /\ \E a \in {<<1, None>>, <<1, 1>>} : add_item("u1", a[1], a[2], 1)
OrdUpdateItem == OrderBudget /\ \E q \in {0, 2} : update_item("u1", 5, q)
OrdRemoveItem == OrderBudget /\ remove_item("u1", 5)
OrdClear == OrderBudget /\ \E u \in Users : clear(u)
OrdCreate == OrderBudget /\ \E u \in Users : create(u, 1, 1)
OrdUpdateProduct == OrderBudget /\ \E d \in {<<"Phone Y", 99900, None>>,
                                               <<"Phone X", 109900, None>>,
                                               <<"Phone X", 99900, 89900>>} :
                                      update_product(1, d[1], d[2], d[3])
OrdUpdateVariant == OrderBudget /\ update_variant(1, 0)
OrdDestroyProduct == OrderBudget /\ \E p \in ProductIds : destroy_product(p)

NextOrders ==
    \/ OrdList
    \/ OrdRetrieve
    \/ OrdCancel
    \/ OrdPartialUpdate
    \/ OrdDestroy
    \/ OrdAddItem
    \/ OrdUpdateItem
    \/ OrdRemoveItem
    \/ OrdClear
    \/ OrdCreate
    \/ OrdUpdateProduct
    \/ OrdUpdateVariant
    \/ OrdDestroyProduct

SpecOrders == InitOrders /\ [][NextOrders]_vars

\* ======================================================================
\* SpecLang: the language preference, one request at a time
\* ======================================================================
MaxLangRequests == 3    \* requests served in one behaviour of SpecLang

\* every user has a Profile, in any of the languages
InitLang ==
    /\ products = InitProducts
    /\ variants = InitVariants
    /\ carts = {}
    /\ cartItems = {}
    /\ nextItemId = 1
    /\ orders = {}
    /\ orderItems = {}
    /\ nextOrderId = 1
    /\ profiles \in [Users -> {Profile(l) : l \in LANGUAGES}]
    /\ resp = NoResp
    /\ nreq = 0
    /\ req = [w \in Workers |-> Idle]

LangBudget == nreq < MaxLangRequests

\* request bodies of set-language: no language, an empty one, the three of
\* LANGUAGES and one that is not among them
LangInputs == {NoCode, "", "de"} \cup LANGUAGES

SetLanguage == LangBudget /\ \E u \in Users \cup {AnonymousUser}, c \in LangInputs,
                                 saved \in BOOLEAN : set_language(u, c, saved)
DeleteProfile == LangBudget /\ \E u \in Users : delete_profile(u)

NextLang ==
    \/ SetLanguage
    \/ DeleteProfile

SpecLang == InitLang /\ [][NextLang]_vars

\* ======================================================================
\* Properties of Spec
\* ======================================================================

\* the (product, variant) pair an add_item response is about
RespVariant == IF VariantGiven(resp.variant) THEN resp.variant ELSE None
RespRows == Lookup(resp.user, resp.product, RespVariant)

\* C4: add_item with q1 and then add_item with q2 for the same (product,
\* variant) pair, starting from a cart without the pair, leaves exactly one
\* CartItem of the pair, with quantity q1 + q2.
C4_MergeOnAdd ==
    (resp.op = "add_item" /\ resp.status = 200 /\ resp.first # None) =>
        /\ Cardinality(RespRows) = 1
        /\ \A i \in RespRows : i.quantity = resp.first + resp.quantity

C4_Witness ==
    /\ resp.op = "add_item" /\ resp.status = 200
    /\ resp.first = 1 /\ resp.quantity = 2
    /\ \E i \in RespRows : i.quantity = 3

\* C5: every stored CartItem has quantity >= 1.
C5_QuantityPositive == \A i \in cartItems : i.quantity >= 1

\* the unit price the specification states: the sale price when it is set
\* (also when it is 0), else the price, plus the variant's adjustment
StatedUnitPrice(i) ==
    LET p == products[i.product]
    IN  (IF p.sale_price # None THEN p.sale_price ELSE p.price)
        + (IF i.variant # None THEN variants[i.variant].price_adjustment ELSE 0)

RECURSIVE StatedTotal(_)
StatedTotal(items) ==
    IF items = {} THEN 0
    ELSE LET i == CHOOSE x \in items : TRUE
         IN  StatedUnitPrice(i) * i.quantity + StatedTotal(items \ {i})

\* C6: unit_price = (S if S is set, else P) + (A if a variant is present),
\* subtotal = unit_price * Q, and Cart.total_price is the sum of the subtotals.
C6_Pricing ==
    /\ \A i \in cartItems :
          /\ ItemUnitPrice(i) = StatedUnitPrice(i)
          /\ ItemSubtotal(i) = StatedUnitPrice(i) * i.quantity
    /\ \A u \in Users : total_price(ItemsOf(u)).value = StatedTotal(ItemsOf(u))

\* C7: order creation from a non-empty cart with total T and valid addresses
\* succeeds and stores tax_amount = 5% of T, shipping_price = 0 and
\* total_price = T + shipping_price + tax_amount.
C7_OrderTotals ==
    (/\ resp.op = "create" /\ resp.had > 0
     /\ AddressOwned(resp.shipping, resp.user)
     /\ AddressOwned(resp.billing, resp.user)) =>
        /\ resp.status = 201
        /\ \E o \in orders :
              /\ o.id = resp.order
              /\ o.tax_amount * 100 = resp.total * 5
              /\ o.shipping_price = 0
              /\ o.total_price = resp.total + o.shipping_price + o.tax_amount

\* C8: order creation for a user without a cart, or with an empty cart,
\* answers EmptyCart and creates no Order, no OrderItem and no Cart row.
C8_EmptyCart ==
    [][ (/\ resp'.op = "create" /\ nreq' = nreq + 1
         /\ (resp'.user \notin carts \/ ItemsOf(resp'.user) = {})) =>
            /\ resp'.status = 400 /\ resp'.error = "EmptyCart"
            /\ UNCHANGED <<carts, cartItems, orders, orderItems>> ]_vars

C8_Witness ==
    /\ resp.op = "create" /\ resp.error = "EmptyCart"
    /\ resp.user \notin carts
    /\ orders = {} /\ orderItems = {}

\* the address ids of a create request, one of which is not the user's own
BadAddress(r) ==
    \/ \A a \in Addresses : ~(a.id = r.shipping /\ a.user = r.user)
    \/ \A a \in Addresses : ~(a.id = r.billing /\ a.user = r.user)

\* C9 as stated: order creation with a shipping or billing address id that is
\* not an Address of the requesting user fails with NotFound, creates no Order
\* or OrderItem and leaves the cart's items unchanged.
C9_BadAddressNotFound ==
    [][ (resp'.op = "create" /\ nreq' = nreq + 1 /\ BadAddress(resp')) =>
            /\ resp'.status = 404 /\ resp'.error = "NotFound"
            /\ UNCHANGED <<cartItems, orders, orderItems>> ]_vars

\* C9 amended: when the user's cart exists and holds an item, such a request
\* fails with NotFound; when the cart is missing or empty it fails with
\* EmptyCart, the cart being checked first. Either way it creates no Order or
\* OrderItem and leaves the cart's items unchanged.
C9_BadAddressAfterCart ==
    [][ (resp'.op = "create" /\ nreq' = nreq + 1 /\ BadAddress(resp')) =>
            /\ IF resp'.user \in carts /\ ItemsOf(resp'.user) # {}
               THEN resp'.status = 404 /\ resp'.error = "NotFound"
               ELSE resp'.status = 400 /\ resp'.error = "EmptyCart"
            /\ UNCHANGED <<cartItems, orders, orderItems>> ]_vars

C9_Witness ==
    /\ resp.op = "create" /\ resp.status = 404 /\ resp.error = "NotFound"
    /\ resp.user = "u1" /\ resp.shipping = 1 /\ resp.billing = 2
    /\ ItemsOf("u1") # {} /\ orders = {}

\* the CartItem of the caller's cart that a request names by its item id
Named(r) == {i \in cartItems : i.cart = r.user /\ i.id = r.item}

\* C17: update_item on an item of the caller's cart succeeds; with a quantity
\* <= 0 it deletes the item, with a quantity > 0 it sets the item's quantity
\* to the given value; every other CartItem stays as it was.
C17_UpdateItemOverwrites ==
    [][ (nreq' = nreq + 1 /\ resp'.op = "update_item") =>
            \A i \in Named(resp') :
                /\ resp'.status = 200
                /\ cartItems' = IF resp'.quantity <= 0 THEN cartItems \ {i}
                                 ELSE (cartItems \ {i})
                                      \cup {[i EXCEPT !.quantity = resp'.quantity]} ]_vars

C17_Witness ==
    /\ resp.op = "update_item" /\ resp.status = 200 /\ resp.item = 1 /\ resp.quantity = 1
    /\ cartItems = {CartItem(1, "u1", 1, 1, 1), CartItem(2, "u2", 2, None, 1)}

\* C18: update_item and remove_item with an item id that names no CartItem of
\* the caller's cart fail with NotFound and change no CartItem; remove_item
\* with an id of the caller's cart deletes that item and no other.
C18_UnknownItemNotFound ==
    [][ (nreq' = nreq + 1 /\ resp'.op \in {"update_item", "remove_item"}
         /\ resp'.item # None) =>
            /\ Named(resp') = {} =>
                  /\ resp'.status = 404 /\ resp'.error = "NotFound"
                  /\ UNCHANGED cartItems
            /\ (resp'.op = "remove_item" /\ Named(resp') # {}) =>
                  cartItems' = cartItems \ Named(resp') ]_vars

\* C19: clear succeeds and removes the CartItems of the caller's cart and no
\* other; on a cart without items it leaves the CartItems as they are, and a
\* clear that follows a clear of the same user changes no table.
C19_ClearIdempotent ==
    [][ (nreq' = nreq + 1 /\ resp'.op = "clear") =>
            /\ resp'.status = 200
            /\ cartItems' = {i \in cartItems : i.cart # resp'.user}
            /\ {i \in cartItems : i.cart = resp'.user} = {} => cartItems' = cartItems
            /\ (resp.op = "clear" /\ resp.user = resp'.user) => UNCHANGED db ]_vars

C19_Witness ==
    /\ resp.op = "clear" /\ resp.status = 200 /\ resp.user = "u1" /\ resp.had = 0
    /\ nreq = 2 /\ ItemsOf("u1") = {} /\ ItemsOf("u2") # {}

\* C20: add_item with a product id that names no product, or with a variant
\* id that names no variant of the product, fails with NotFound and leaves the
\* CartItems unchanged; the variant of every CartItem is a variant of the
\* CartItem's product.
C20_UnknownProductOrVariant ==
    /\ [][ (/\ nreq' = nreq + 1 /\ resp'.op = "add_item" /\ resp'.status # 400
            /\ \/ ~ProductExists(resp'.product)
               \/ /\ resp'.variant # None
                  /\ ~VariantExists(resp'.variant, resp'.product)) =>
               /\ resp'.status = 404 /\ resp'.error = "NotFound"
               /\ UNCHANGED cartItems ]_vars
    /\ [](\A i \in cartItems :
            i.variant # None => variants[i.variant].product = i.product)

\* the CartItems of the carts of the users other than u
ItemsOfOthers(rows, u) == {i \in rows : i.cart # u}

\* C21: a cart operation or an order creation of user U leaves the CartItems
\* of every other user's cart as they were: the step of a whole request, and
\* every statement of a request that a worker is serving.
C21_OtherCartsUntouched ==
    [][ /\ (nreq' = nreq + 1 /\ req' = req /\ resp'.op \in {"add_item", "update_item",
                                    "remove_item", "clear", "create"}) =>
              ItemsOfOthers(cartItems', resp'.user) = ItemsOfOthers(cartItems, resp'.user)
        /\ \A w \in Workers :
              (req'[w] # req[w]) =>
                  LET u == IF req[w].pc = "idle" THEN req'[w].user ELSE req[w].user
                  IN  ItemsOfOthers(cartItems', u) = ItemsOfOthers(cartItems, u) ]_vars

C21_Witness ==
    /\ resp.op = "remove_item" /\ resp.status = 200 /\ resp.user = "u1" /\ resp.item = 1
    /\ cartItems = {CartItem(2, "u2", 2, None, 1)}

\* C22: the unit price and the subtotal of every CartItem, the total of every
\* cart and the total and tax of every Order are >= 0.
C22_NonNegativePrices ==
    /\ \A i \in cartItems : ItemUnitPrice(i) >= 0 /\ ItemSubtotal(i) >= 0
    /\ \A u \in Users : total_price(ItemsOf(u)).value >= 0
    /\ \A o \in orders : o.total_price >= 0 /\ o.tax_amount >= 0

\* ======================================================================
\* Properties of SpecConc
\* ======================================================================

\* the OrderItems of an order, and what each records
OrderItemsOf(order_id) == {oi \in orderItems : oi.order = order_id}
Recorded(oi) ==
    [product_name |-> oi.product_name, product_variant |-> oi.product_variant,
     product_sku |-> oi.product_sku, quantity |-> oi.quantity,
     unit_price |-> oi.unit_price, subtotal |-> oi.subtotal]

\* one OrderItem per cart row of the snapshot, each recording the row's line
OneItemPerRow(order_id, snap) ==
    /\ Cardinality(OrderItemsOf(order_id)) = Cardinality(snap)
    /\ \A s \in snap : \E oi \in OrderItemsOf(order_id) : Recorded(oi) = s.line
    /\ \A oi \in OrderItemsOf(order_id) : \E s \in snap : Recorded(oi) = s.line

\* C1: an order creation that fails after it has inserted its Order leaves no
\* Order and no OrderItem of the attempt, and the cart holds the CartItems it
\* held when the request was invoked.
C1_FailedCreateLeavesNothing ==
    (resp.op = "create" /\ resp.status >= 400 /\ resp.order # None) =>
        /\ \A o \in orders : o.id # resp.order
        /\ OrderItemsOf(resp.order) = {}
        /\ ItemsOf(resp.user) = {s.item : s \in resp.snap}

\* C2: in every state, every existing Order has exactly one OrderItem for each
\* CartItem that was in the cart when its creation was invoked, also while the
\* creation is in progress.
C2_NoPartialOrder ==
    /\ \A w \in Workers :
          (req[w].op = "create" /\ req[w].order # None) =>
              OneItemPerRow(req[w].order, req[w].snap)
    /\ (resp.op = "create" /\ resp.order # None) => OneItemPerRow(resp.order, resp.snap)

\* C3: a cart holds at most one CartItem per (product, variant) pair, the
\* pairs without a variant included.
C3_OneRowPerPair ==
    \A i \in cartItems, j \in cartItems :
        (i.cart = j.cart /\ i.product = j.product /\ i.variant = j.variant) => i.id = j.id

\* C10: a successful order creation leaves exactly one OrderItem per CartItem
\* that was in the cart, each recording the product name, SKU, variant name,
\* unit price and quantity of its CartItem, with subtotal = unit price times
\* quantity.
C10_OrderItemsSnapshotCart ==
    (resp.op = "create" /\ resp.status = 201) =>
        /\ OneItemPerRow(resp.order, resp.snap)
        /\ \A oi \in OrderItemsOf(resp.order) : oi.subtotal = oi.unit_price * oi.quantity

\* C11: the step that answers a successful order creation leaves the cart of
\* its user without CartItems and with its Cart row, and a cart request of a
\* user that has a Cart row adds no Cart row.
C11_CartEmptiedRowKept ==
    [][ \A w \in Workers :
          /\ (req[w].op = "create" /\ req'[w].pc = "idle" /\ resp'.status = 201) =>
                /\ {i \in cartItems' : i.cart = req[w].user} = {}
                /\ req[w].user \in carts'
          /\ (/\ req[w].pc = "idle" /\ req'[w].op \in {"add_item", "clear"}
              /\ req'[w].user \in carts) => carts' = carts ]_vars

C11_Witness ==
    /\ resp.op = "create" /\ resp.status = 201 /\ resp.had > 0
    /\ ItemsOf(resp.user) = {} /\ resp.user \in carts
    /\ \E w \in Workers : req[w].op = "clear" /\ req[w].user = resp.user

\* "ORD-" followed by twelve hex characters
UpperHexDigits ==
    {"0", "1", "2", "3", "4", "5", "6", "7", "8", "9", "A", "B", "C", "D", "E", "F"}
WellFormedNumber(n) ==
    /\ Len(n) = 16
    /\ SubSeq(n, 1, 4) = <<"O", "R", "D", "-">>
    /\ \A k \in 5..16 : n[k] \in UpperHexDigits

\* C15: every stored Order has an order_number of the form ORD- and twelve
\* hex characters, no two orders have the same number, and no step changes
\* the number of an order that is stored (a cancel saves the order again).
C15_OrderNumber ==
    /\ [](\A o \in orders :
            /\ WellFormedNumber(o.order_number)
            /\ \A x \in orders : x.order_number = o.order_number => x.id = o.id)
    /\ [][\A o \in orders : \A x \in orders' :
              x.id = o.id => x.order_number = o.order_number]_vars

C15_Witness ==
    /\ resp.op = "cancel" /\ resp.status = 200
    /\ \E o \in orders, x \in orders :
          /\ o.id = 1 /\ o.status = "cancelled" /\ x.id = 2
          /\ o.order_number = OrderNumber(SeedHex(2))
          /\ x.order_number = OrderNumber(SeedHex(1))

\* C23: the Order that an order creation inserts has status pending, is not
\* paid, belongs to the requesting user and references the shipping and the
\* billing address of the request; the creation inserts no other Order.
C23_NewOrderDefaults ==
    [][ \A w \in Workers :
          (req[w].op = "create" /\ req[w].pc = "order" /\ req'[w].pc = "fetch") =>
              \E o \in orders' :
                  /\ orders' = orders \cup {o} /\ o \notin orders
                  /\ o.id = req'[w].order
                  /\ o.status = "pending" /\ o.is_paid = FALSE
                  /\ o.user = req[w].user
                  /\ o.shipping_address = req[w].shipping
                  /\ o.billing_address = req[w].billing ]_vars

C23_Witness ==
    /\ resp.op = "create" /\ resp.status = 201 /\ resp.shipping = 1 /\ resp.billing = 4
    /\ \E o \in orders :
          /\ o.id = resp.order /\ o.user = "u1" /\ o.status = "pending" /\ ~o.is_paid
          /\ o.shipping_address = 1 /\ o.billing_address = 4

C25_LastWriteWins ==
    [][ \A w \in Workers :
          (/\ req[w].op = "add_item" /\ req[w].pc = "save" /\ req'[w].pc = "idle"
           /\ \E i \in cartItems : i.id = req[w].cart_item.id) =>
              \A i \in cartItems' :
                  i.id = req[w].cart_item.id =>
                      i.quantity = req[w].cart_item.quantity + req[w].quantity ]_vars

\* both calls read quantity 2; the one that asked for 2 has written 4, and
\* the one that asked for 1 is about to write 3
C25_Witness ==
    /\ resp.op = "add_item" /\ resp.status = 200 /\ resp.had = 1 /\ resp.quantity = 2
    /\ CartItem(1, "u1", 1, 1, 4) \in cartItems
    /\ \E w \in Workers :
          /\ req[w].op = "add_item" /\ req[w].pc = "save" /\ req[w].quantity = 1
          /\ req[w].cart_item = CartItem(1, "u1", 1, 1, 2)

\* the sum of the subtotals of OrderItems
RECURSIVE SumOrderItems(_)
SumOrderItems(rows) ==
    IF rows = {} THEN 0
    ELSE LET oi == CHOOSE x \in rows : TRUE
         IN  oi.subtotal + SumOrderItems(rows \ {oi})

\* C26: for the Order of every creation that has succeeded, total_price is
\* the sum of the subtotals of its OrderItems plus shipping_price and
\* tax_amount, and tax_amount is 5% of that sum.
C26_TotalMatchesItems ==
    (resp.op = "create" /\ resp.status = 201) =>
        \A o \in orders :
            o.id = resp.order =>
                LET sum == SumOrderItems(OrderItemsOf(o.id))
                IN  /\ o.total_price = sum + o.shipping_price + o.tax_amount
                    /\ o.tax_amount * 100 = sum * TaxRatePercent

\* C28: every CartItem that an order creation deletes when it clears the cart
\* is recorded as an OrderItem of the Order it created.
C28_ClearedItemsAreOrdered ==
    [][ \A w \in Workers :
          (req[w].op = "create" /\ req[w].pc = "items" /\ req'[w].pc = "idle"
           /\ resp'.status = 201) =>
              \A i \in cartItems \ cartItems' :
                  \E oi \in OrderItemsOf(req[w].order) : oi.cart_item = i.id ]_vars

\* ======================================================================
\* Properties of SpecRace
\* ======================================================================
\* the ids of the CartItems a creation found in the cart when it began
SnapIds(snap) == {l.item.id : l \in snap}

\* the order has an OrderItem written from the CartItem with this id
OrderedIn(order_id, item_id) == \E oi \in OrderItemsOf(order_id) : oi.cart_item = item_id

\* C27: when two creations of one user that overlap in time both succeed,
\* no CartItem that was in the cart when they began has OrderItems in both
\* Orders.  (The creation that answers second here inserted its Order first,
\* so it was in flight before the other one answered.)
C27_NoDoubleOrder ==
    [][ \A w \in RaceWorkers :
          (/\ req[w].op = "create" /\ req[w].pc = "items" /\ req'[w].pc = "idle"
           /\ resp'.status = 201
           /\ resp.op = "create" /\ resp.status = 201 /\ resp.user = req[w].user
           /\ req[w].order < resp.order) =>
              \A x \in SnapIds(req[w].snap) \cap SnapIds(resp.snap) :
                  ~(OrderedIn(req[w].order, x) /\ OrderedIn(resp.order, x)) ]_vars

\* ======================================================================
\* Properties of SpecOrders
\* ======================================================================

\* what the OrderItems record, and the totals the Orders hold
RecordedLines(rows) == {[id |-> oi.id, order |-> oi.order, line |-> Recorded(oi)] : oi \in rows}
Totals(rows) ==
    {[id |-> o.id, total_price |-> o.total_price, shipping_price |-> o.shipping_price,
      tax_amount |-> o.tax_amount] : o \in rows}

CatalogOps == {"update_product", "update_variant", "destroy_product"}
CartOps == {"add_item", "update_item", "remove_item", "clear"}

\* C12: a change of a Product or ProductVariant, the deletion of a product and
\* every cart operation leave the name, variant, SKU, unit price, quantity and
\* subtotal of every OrderItem and the total, shipping price and tax of every
\* Order as they were.
C12_OrdersKeepSnapshot ==
    [][ (nreq' = nreq + 1 /\ resp'.op \in CatalogOps \cup CartOps) =>
            /\ RecordedLines(orderItems') = RecordedLines(orderItems)
            /\ Totals(orders') = Totals(orders) ]_vars

C12_Witness ==
    /\ resp.op = "destroy_product" /\ resp.product = 1 /\ ~products[1].exists
    /\ \E oi \in orderItems :
          /\ oi.product = None /\ oi.product_name = "Phone X" /\ oi.product_sku = "SKU-1"
          /\ oi.unit_price = 109900 /\ oi.quantity = 2

\* the order a cancel request is about, as the request finds it
Target(r) == {o \in orders : o.user = r.user /\ o.id = r.order}

\* C13: cancel on an order that is shipped, delivered, cancelled or refunded
\* is refused with InvalidTransition and leaves every order as it was; a cancel
\* that succeeds found the order pending or processing.
C13_CancelGuard ==
    [][ (nreq' = nreq + 1 /\ resp'.op = "cancel") =>
            \A o \in Target(resp') :
                /\ o.status \in {"shipped", "delivered", "cancelled", "refunded"} =>
                      /\ resp'.status = 400 /\ resp'.error = "InvalidTransition"
                      /\ UNCHANGED <<orders, orderItems>>
                /\ resp'.status = 200 => o.status \in {"pending", "processing"} ]_vars

C13_Witness ==
    /\ resp.op = "cancel" /\ resp.status = 400 /\ resp.error = "InvalidTransition"
    /\ \E o \in Target(resp) : o.status = "delivered" /\ o.tracking_number = 4711

\* C14: a cancel that succeeds sets the status of its order to cancelled and
\* changes no other field of it, no other order, no OrderItem, no cart and no
\* catalog entry.
C14_CancelChangesStatusOnly ==
    [][ (nreq' = nreq + 1 /\ resp'.op = "cancel" /\ resp'.status = 200) =>
            /\ \E o \in Target(resp') :
                  orders' = (orders \ {o}) \cup {[o EXCEPT !.status = "cancelled"]}
            /\ UNCHANGED <<orderItems, carts, cartItems, products, variants>> ]_vars

C14_Witness ==
    /\ resp.op = "cancel" /\ resp.status = 200 /\ resp.order = 1
    /\ orderItems = {SeedLine}
    /\ \E o \in Target(resp) :
          /\ o.status = "cancelled" /\ o.total_price = 100 /\ ~o.is_paid
          /\ o.order_number = OrderNumber(SeedHex(1))

OrderOps == {"create", "cancel", "partial_update", "destroy"}

\* C16: no request to an order endpoint changes the total, shipping price or
\* tax of an existing Order, changes its set of OrderItems, or removes it.
C16_OrderImmutable ==
    [][ (nreq' = nreq + 1 /\ resp'.op \in OrderOps) =>
            /\ Totals(orders) \subseteq Totals(orders')
            /\ \A o \in orders :
                  {oi \in orderItems' : oi.order = o.id} = {oi \in orderItems : oi.order = o.id}
       ]_vars

\* the order belongs to a user other than u
OfAnotherUser(pk, u) == \E o \in orders : o.id = pk /\ o.user # u

\* C30: the list of orders a user gets holds the user's own orders and no
\* others; retrieve and cancel on an order of another user are answered 404,
\* return nothing of it and leave every order as it was.
C30_OwnOrdersOnly ==
    [][ (nreq' = nreq + 1) =>
          /\ resp'.op = "list" =>
                /\ resp'.status = 200
                /\ resp'.body = {o.id : o \in {x \in orders : x.user = resp'.user}}
          /\ (resp'.op \in {"retrieve", "cancel"} /\ OfAnotherUser(resp'.order, resp'.user)) =>
                /\ resp'.status = 404
                /\ resp'.body = {}
                /\ orders' = orders ]_vars

\* u1 has asked to cancel u2's pending order and got 404; the order is pending
C30_Witness ==
    /\ resp.op = "cancel" /\ resp.user = "u1" /\ resp.order = 2 /\ resp.status = 404
    /\ \E o \in orders : o.id = 2 /\ o.user = "u2" /\ o.status = "pending"

\* ======================================================================
\* Properties of SpecLang
\* ======================================================================
\* C29: set-language with a code of LANGUAGES by an authenticated user is
\* answered 200 with the code and its name and sets the language cookie,
\* whatever the state of the user's profile; with a missing or unknown code
\* it is answered with an error, sets no cookie and leaves the profiles as
\* they were.
C29_SetLanguageNeverFails ==
    [][ (nreq' = nreq + 1 /\ resp'.op = "set_language") =>
          /\ (resp'.language \in LANGUAGES /\ resp'.user \in Users) =>
                /\ resp'.status = 200
                /\ resp'.code = resp'.language
                /\ resp'.name = LanguageName(resp'.language)
                /\ resp'.cookie = resp'.language
          /\ resp'.language \notin LANGUAGES =>
                /\ resp'.status = 400
                /\ resp'.cookie = ""
                /\ profiles' = profiles ]_vars

====
